---- MODULE Spec2Model ----
\* Model of procesa_critica_cineclub.py (the Gemini-based pipeline) and of the
\* obtener_ruta_unica helper of renombrar_videos_criticas_cineclub.py.
\*
\* Strings are sequences of tokens.  A token is a one-character string, or a
\* literal the program itself writes as a whole ("_puntos_", the sentinels).
\* A path is a record [dir, stem, ext]: pathlib's parent, stem and suffix.
EXTENDS Integers, Sequences, FiniteSets, TLC

VARIABLES
    fs,      \* the files on disk: a function from the paths that exist to their content
    dirs,    \* the directories among "temp" and "error" that exist
    pc,      \* position of the single thread of control
    m,       \* frame of main
    v,       \* frame of procesar_un_video
    tc,      \* frame of transcribir_clip
    w,       \* frame of gemini_request_with_retry
    ru,      \* frame of obtener_ruta_unica
    hist     \* observations: what was handed to whom, where each video ended

vars == <<fs, dirs, pc, m, v, tc, w, ru, hist>>

\* Python's None where a label is expected, and where a text (a sequence) is.
None == "None"
NoneText == <<"None">>

\* ---------------------------------------------------------------- bounds

\* Largest number of colliding names laid out before the resolver runs.
MaxColisiones == 3
\* Largest number of videos in the upload directory.
MaxVideos == 2
\* Largest max_retries handed to the wrapper when it is run on its own.
MaxRetriesArg == 4
\* Longest answer of the completion API given to obtener_puntuacion alone.
MaxLenRespuesta == 4
\* Most videos in the upload directory of the runs checked for termination.
MaxVideosVivo == 2

\* ---------------------------------------------------------------- strings

RECURSIVE Digits(_)
\* str(n) of a natural number, as the f-string formats contador.
Digits(n) ==
    LET d == <<"0", "1", "2", "3", "4", "5", "6", "7", "8", "9">>[(n % 10) + 1]
    IN  IF n < 10 THEN <<d>> ELSE Digits(n \div 10) \o <<d>>

DigitChars == {"0", "1", "2", "3", "4", "5", "6", "7", "8", "9"}
DigitValue(c) == CHOOSE n \in 0 .. 9 : Digits(n) = <<c>>

\* Whitespace as str.strip() sees it.
Whitespace == {" ", "\n", "\t"}

RECURSIVE lstrip(_)
lstrip(s) == IF s # <<>> /\ Head(s) \in Whitespace THEN lstrip(Tail(s)) ELSE s

RECURSIVE rstrip(_)
rstrip(s) ==
    IF s # <<>> /\ s[Len(s)] \in Whitespace THEN rstrip(SubSeq(s, 1, Len(s) - 1)) ELSE s

\* str.strip()
strip(s) == rstrip(lstrip(s))

\* str.replace(old, new) for one-character old and new.
replace(s, old, new) == [i \in 1 .. Len(s) |-> IF s[i] = old THEN new ELSE s[i]]

\* The characters of the class [\\/*?:"<>|] of the title clean-up.
Ilegales == {"\\", "/", "*", "?", ":", "\"", "<", ">", "|"}

\* re.sub(r'[\\/*?:"<>|]', "", s)
sub_ilegales(s) == SelectSeq(s, LAMBDA c : c \notin Ilegales)

\* ---------------------------------------------------------------- paths

Path(d, s, e) == [dir |-> d, stem |-> s, ext |-> e]

\* None where a Path is expected: a path that is nowhere.
NoneRuta == Path(None, <<>>, <<>>)

\* Path.with_stem: same parent, same suffix, new stem.
with_stem(p, s) == [p EXCEPT !.stem = s]

\* Path.exists on the modelled disk.
exists(p) == p \in DOMAIN fs

\* The text the resolver appends to the stem for a given counter:
\* f"{stem}({contador})" in procesa_critica_cineclub.py,
\* f"{stem}_{contador}" in renombrar_videos_criticas_cineclub.py.
Sufijo(estilo, contador) ==
    IF estilo = "paren" THEN <<"(">> \o Digits(contador) \o <<")">>
    ELSE <<"_">> \o Digits(contador)

Candidata(p, estilo, contador) == with_stem(p, p.stem \o Sufijo(estilo, contador))

\* ---------------------------------------------------------------- frames at rest

RuIdle == [propuesta |-> NoneRuta, estilo |-> None, contador |-> 0, probes |-> 0,
           result |-> NoneRuta]
\* calls, quota and sleeps count generate_content invocations, ResourceExhausted
\* failures and time.sleep(delay) calls of the current wrapper call.
WIdle == [caller |-> None, max_retries |-> 0, attempt |-> 0, calls |-> 0,
          quota |-> 0, sleeps |-> 0, result |-> None, text |-> NoneText]
\* tick: parity of the time.sleep(2) turns of the poll loop.
\* uploaded: audio_file is not None.  deletes: genai.delete_file requests of
\* the current call.  requests: calls of gemini_request_with_retry.
TcIdle == [clip |-> None, start_time |-> 0, end_time |-> 0, uploaded |-> FALSE,
           state |-> None, polled |-> FALSE, tick |-> FALSE, requests |-> 0, deletes |-> 0,
           delete_failed |-> FALSE, exit |-> None, result |-> NoneText]
VIdle == [ruta |-> NoneRuta, duracion_video |-> 0, texto_inicio |-> NoneText,
          nombre_pelicula |-> NoneText, texto_final |-> NoneText, puntuacion |-> NoneText,
          attempt |-> 0, moves |-> 0, sleeps |-> 0, nueva_ruta |-> NoneRuta,
          fallo_remoto |-> None, pasos |-> <<>>, outcome |-> None]
\* pasos: the steps of procesar_un_video begun for the current video, in order.
\* fallo_remoto: the function whose `except Exception` branch logged
\* "Error al contactar con la API de Gemini" for the current video.
\* created: os.makedirs(temp_dir) went through.  rmtree_failed: shutil.rmtree raised.
MIdle == [modo |-> None, temp_dir |-> None, created |-> FALSE, videos |-> <<>>,
          idx |-> 0, rmtree_failed |-> FALSE, result |-> None]
\* handed: the paths passed to procesar_un_video, in order.
\* outcomes: how each of those calls ended.
\* final: the path each relocated video was moved to in the destination root.
\* previos: the files that lay in the destination root and in the error
\* folder before the run.
HistIdle == [handed |-> <<>>, outcomes |-> <<>>, final |-> <<>>, previos |-> {}]

\* ---------------------------------------------------------------- obtener_ruta_unica

\* Slip: the counter starts at 1.
RutaUnicaEntradaDesdeUno ==
    /\ pc = "ru_entrada"
    /\ IF ~exists(ru.propuesta)
         THEN /\ ru' = [ru EXCEPT !.probes = @ + 1, !.result = ru.propuesta]
              /\ pc' = "ru_return"
         ELSE /\ ru' = [ru EXCEPT !.probes = @ + 1, !.contador = 1]
              /\ pc' = "ru_bucle"
    /\ UNCHANGED <<fs, dirs, m, v, tc, w, hist>>

\* The first probe: `if not ruta_propuesta.exists(): return ruta_propuesta`,
\* otherwise contador = 2 and the loop is entered.
RutaUnicaEntrada ==
    /\ pc = "ru_entrada"
    /\ IF ~exists(ru.propuesta)
         THEN /\ ru' = [ru EXCEPT !.probes = @ + 1, !.result = ru.propuesta]
              /\ pc' = "ru_return"
         ELSE /\ ru' = [ru EXCEPT !.probes = @ + 1, !.contador = 2]
              /\ pc' = "ru_bucle"
    /\ UNCHANGED <<fs, dirs, m, v, tc, w, hist>>

\* Slip: the counter is advanced by two.
RutaUnicaBucleDeDosEnDos ==
    /\ pc = "ru_bucle"
    /\ LET nueva_ruta == Candidata(ru.propuesta, ru.estilo, ru.contador)
       IN  IF ~exists(nueva_ruta)
             THEN /\ ru' = [ru EXCEPT !.probes = @ + 1, !.result = nueva_ruta]
                  /\ pc' = "ru_return"
             ELSE /\ ru' = [ru EXCEPT !.probes = @ + 1, !.contador = @ + 2]
                  /\ pc' = "ru_bucle"
    /\ UNCHANGED <<fs, dirs, m, v, tc, w, hist>>

\* One turn of `while True`: build the candidate, probe it, return or count on.
RutaUnicaBucle ==
    /\ pc = "ru_bucle"
    /\ LET nueva_ruta == Candidata(ru.propuesta, ru.estilo, ru.contador)
       IN  IF ~exists(nueva_ruta)
             THEN /\ ru' = [ru EXCEPT !.probes = @ + 1, !.result = nueva_ruta]
                  /\ pc' = "ru_return"
             ELSE /\ ru' = [ru EXCEPT !.probes = @ + 1, !.contador = @ + 1]
                  /\ pc' = "ru_bucle"
    /\ UNCHANGED <<fs, dirs, m, v, tc, w, hist>>

\* ---------------------------------------------------------------- gemini_request_with_retry

\* Default of the max_retries parameter; no caller passes another value.
MaxRetriesDefault == 3

\* What generate_content may answer, by the prompt it was given.
Transcripciones == {<<>>, <<"t">>}
Titulos == {<<"D">>, <<" ", "D", "?", "\n">>, <<"?">>, <<"pelicula_no_encontrada">>,
            <<"nombre_desconocido">>}
Puntuaciones == {<<"8">>, <<"9", ",", "5">>, <<"1", "1">>, <<"-", "1">>, <<"no">>}

Respuestas(caller) ==
    CASE caller = "transcribir_clip" -> Transcripciones
      [] caller = "obtener_nombre_pelicula" -> Titulos
      [] caller = "obtener_puntuacion" -> Puntuaciones
      [] OTHER -> {<<"r">>}

\* The frame of a fresh call made by `caller` with the default arguments.
WCall(caller) == [WIdle EXCEPT !.caller = caller, !.max_retries = MaxRetriesDefault]

\* Slip: range(max_retries + 1).
GeminiAttemptUnoMas ==
    /\ pc = "w_loop"
    /\ w.attempt < w.max_retries + 1
    /\ \/ \E t \in Respuestas(w.caller) :
            /\ w' = [w EXCEPT !.calls = @ + 1, !.result = "response", !.text = t]
            /\ pc' = "w_return"
       \/ /\ w' = [w EXCEPT !.calls = @ + 1, !.quota = @ + 1]
          /\ pc' = "w_sleep"
       \/ /\ w' = [w EXCEPT !.calls = @ + 1, !.result = "error"]
          /\ pc' = "w_return"
    /\ UNCHANGED <<fs, dirs, m, v, tc, ru, hist>>

\* Slip: every exception is retried as the quota one is.
GeminiAttemptReintentaTodo ==
    /\ pc = "w_loop"
    /\ w.attempt < w.max_retries
    /\ \/ \E t \in Respuestas(w.caller) :
            /\ w' = [w EXCEPT !.calls = @ + 1, !.result = "response", !.text = t]
            /\ pc' = "w_return"
       \/ /\ w' = [w EXCEPT !.calls = @ + 1, !.quota = @ + 1]
          /\ pc' = "w_sleep"
       \/ /\ w' = [w EXCEPT !.calls = @ + 1, !.result = "error"]
          /\ pc' = "w_sleep"
    /\ UNCHANGED <<fs, dirs, m, v, tc, ru, hist>>

\* `for attempt in range(max_retries)` with an attempt left:
\* generate_content returns, raises ResourceExhausted, or raises anything else.
GeminiAttempt ==
    /\ pc = "w_loop"
    /\ w.attempt < w.max_retries
    /\ \/ \E t \in Respuestas(w.caller) :
            /\ w' = [w EXCEPT !.calls = @ + 1, !.result = "response", !.text = t]
            /\ pc' = "w_return"
       \/ /\ w' = [w EXCEPT !.calls = @ + 1, !.quota = @ + 1]
          /\ pc' = "w_sleep"
       \/ /\ w' = [w EXCEPT !.calls = @ + 1, !.result = "error"]
          /\ pc' = "w_return"
    /\ UNCHANGED <<fs, dirs, m, v, tc, ru, hist>>

\* Slip: the retry does not wait.
GeminiSleepSinEspera ==
    /\ pc = "w_sleep"
    /\ w' = [w EXCEPT !.attempt = @ + 1]
    /\ pc' = "w_loop"
    /\ UNCHANGED <<fs, dirs, m, v, tc, ru, hist>>

\* `except ResourceExhausted`: log, time.sleep(delay), next turn of the loop.
GeminiSleep ==
    /\ pc = "w_sleep"
    /\ w' = [w EXCEPT !.sleeps = @ + 1, !.attempt = @ + 1]
    /\ pc' = "w_loop"
    /\ UNCHANGED <<fs, dirs, m, v, tc, ru, hist>>

\* The loop ran out: raise Exception("Se superó el número máximo de reintentos ...").
GeminiExhausted ==
    /\ pc = "w_loop"
    /\ w.attempt >= w.max_retries
    /\ w' = [w EXCEPT !.result = "exhausted"]
    /\ pc' = "w_return"
    /\ UNCHANGED <<fs, dirs, m, v, tc, ru, hist>>

\* ---------------------------------------------------------------- transcribir_clip

TempClip == Path("temp", <<"temp_clip">>, <<".", "m", "p", "4">>)

\* The frame of a fresh call for the interval [start_time, end_time].
TcCall(clip, start_time, end_time) ==
    [TcIdle EXCEPT !.clip = clip, !.start_time = start_time, !.end_time = end_time]

\* `except Exception`: log and return None, through the finally block.
TcExcept(exit) == [tc EXCEPT !.result = NoneText, !.exit = exit]

\* VideoFileClip(...).subclip(...).write_videofile(temp_clip_path): writes the
\* clip into the temporary directory, or raises.
TcExtraer ==
    /\ pc = "tc_extraer"
    /\ \/ /\ fs' = [p \in DOMAIN fs \cup {TempClip} |->
                       IF p = TempClip THEN <<"clip">> ELSE fs[p]]
          /\ tc' = tc
          /\ pc' = "tc_subir"
       \/ /\ tc' = TcExcept("extraer")
          /\ pc' = "tc_finally"
          /\ fs' = fs
    /\ UNCHANGED <<dirs, m, v, w, ru, hist>>

EstadosRemotos == {"PROCESSING", "ACTIVE", "FAILED"}

\* genai.upload_file: returns the handle of a remote asset in some state, or raises.
TcSubir ==
    /\ pc = "tc_subir"
    /\ \/ \E st \in EstadosRemotos :
            /\ tc' = [tc EXCEPT !.uploaded = TRUE, !.state = st]
            /\ pc' = "tc_esperar"
       \/ /\ tc' = TcExcept("subir")
          /\ pc' = "tc_finally"
    /\ UNCHANGED <<fs, dirs, m, v, w, ru, hist>>

\* Slip: the handle fetched is dropped, so the state tested stays the first one.
TcSondearSinRefrescar ==
    /\ pc = "tc_esperar"
    /\ tc.state = "PROCESSING"
    /\ \/ /\ tc' = [tc EXCEPT !.polled = TRUE, !.tick = ~@]
          /\ pc' = "tc_esperar"
       \/ /\ tc' = [TcExcept("sondear") EXCEPT !.polled = TRUE, !.tick = ~@]
          /\ pc' = "tc_finally"
    /\ UNCHANGED <<fs, dirs, m, v, w, ru, hist>>

\* `while audio_file.state.name == "PROCESSING"`: sleep 2 s and fetch the handle
\* again; genai.get_file may raise, and audio_file then keeps the old handle.
TcSondear ==
    /\ pc = "tc_esperar"
    /\ tc.state = "PROCESSING"
    /\ \/ \E st \in EstadosRemotos :
            /\ tc' = [tc EXCEPT !.state = st, !.polled = TRUE, !.tick = ~@]
            /\ pc' = "tc_esperar"
       \/ /\ tc' = [TcExcept("sondear") EXCEPT !.polled = TRUE, !.tick = ~@]
          /\ pc' = "tc_finally"
    /\ UNCHANGED <<fs, dirs, m, v, w, ru, hist>>

\* Slip: the state is not tested once the loop is left.
TcPedirSinComprobar ==
    /\ pc = "tc_esperar"
    /\ tc.state # "PROCESSING"
    /\ tc' = [tc EXCEPT !.requests = @ + 1]
    /\ w' = WCall("transcribir_clip")
    /\ pc' = "w_loop"
    /\ UNCHANGED <<fs, dirs, m, v, ru, hist>>

\* The loop is left: a state other than ACTIVE raises, ACTIVE sends the
\* transcription prompt through gemini_request_with_retry.
TcPedir ==
    /\ pc = "tc_esperar"
    /\ tc.state # "PROCESSING"
    /\ IF tc.state # "ACTIVE"
         THEN /\ tc' = TcExcept("estado")
              /\ pc' = "tc_finally"
              /\ w' = w
         ELSE /\ tc' = [tc EXCEPT !.requests = @ + 1]
              /\ w' = WCall("transcribir_clip")
              /\ pc' = "w_loop"
    /\ UNCHANGED <<fs, dirs, m, v, ru, hist>>

\* gemini_request_with_retry is back: `return response.text`, or the except block.
TcRespuesta ==
    /\ pc = "w_return"
    /\ w.caller = "transcribir_clip"
    /\ tc' = IF w.result = "response"
               THEN [tc EXCEPT !.result = w.text, !.exit = "return"]
               ELSE TcExcept(w.result)
    /\ w' = WIdle
    /\ pc' = "tc_finally"
    /\ UNCHANGED <<fs, dirs, m, v, ru, hist>>

\* Slip: the deletion is at the end of the try body, not in a finally block.
TcFinallySoloExito ==
    /\ pc = "tc_finally"
    /\ IF tc.uploaded /\ tc.exit = "return"
         THEN \E failed \in BOOLEAN :
                tc' = [tc EXCEPT !.deletes = @ + 1, !.delete_failed = failed]
         ELSE tc' = tc
    /\ pc' = "tc_return"
    /\ UNCHANGED <<fs, dirs, m, v, w, ru, hist>>

\* `finally: if audio_file:` genai.delete_file is requested; its failure is
\* logged and goes no further.
TcFinally ==
    /\ pc = "tc_finally"
    /\ IF tc.uploaded
         THEN \E failed \in BOOLEAN :
                tc' = [tc EXCEPT !.deletes = @ + 1, !.delete_failed = failed]
         ELSE tc' = tc
    /\ pc' = "tc_return"
    /\ UNCHANGED <<fs, dirs, m, v, w, ru, hist>>

\* ---------------------------------------------------------------- float()

RECURSIVE ValorDigitos(_)
\* int() of a non-empty run of decimal digits.
ValorDigitos(s) ==
    IF Len(s) = 1 THEN DigitValue(s[1])
    ELSE ValorDigitos(SubSeq(s, 1, Len(s) - 1)) * 10 + DigitValue(s[Len(s)])

SonDigitos(s) == \A i \in 1 .. Len(s) : s[i] \in DigitChars

\* float(s) over the alphabet of the modelled answers (digits, sign, period):
\* ok is FALSE for ValueError, otherwise the sign, the integer part and the
\* digits after the period are given.
float(s) ==
    LET t == strip(s)
        neg == t # <<>> /\ t[1] = "-"
        u == IF t # <<>> /\ t[1] \in {"-", "+"} THEN Tail(t) ELSE t
        dots == {i \in 1 .. Len(u) : u[i] = "."}
        dot == IF dots = {} THEN Len(u) + 1 ELSE CHOOSE i \in dots : TRUE
        ent == SubSeq(u, 1, dot - 1)
        frac == SubSeq(u, dot + 1, Len(u))
    IN  IF /\ Cardinality(dots) <= 1
           /\ SonDigitos(ent)
           /\ SonDigitos(frac)
           /\ ent \o frac # <<>>
          THEN [ok |-> TRUE, neg |-> neg,
                ent |-> IF ent = <<>> THEN 0 ELSE ValorDigitos(ent), frac |-> frac]
          ELSE [ok |-> FALSE, neg |-> FALSE, ent |-> 0, frac |-> <<>>]

EsCero(x) == x.ent = 0 /\ \A i \in 1 .. Len(x.frac) : x.frac[i] = "0"

\* Slip: only the lower end of the range is tested.
EnRangoSinTope(x) == ~x.neg \/ EsCero(x)

\* 0 <= valor_numerico <= 10
EnRango(x) ==
    /\ ~x.neg \/ EsCero(x)
    /\ \/ x.ent < 10
       \/ x.ent = 10 /\ \A i \in 1 .. Len(x.frac) : x.frac[i] = "0"

\* ---------------------------------------------------------------- obtener_nombre_pelicula, obtener_puntuacion

NoEncontrada == <<"pelicula_no_encontrada">>
Desconocido == <<"nombre_desconocido">>
No == <<"no">>

\* What obtener_nombre_pelicula returns once gemini_request_with_retry is back:
\* the cleaned answer, "nombre_desconocido" when it is empty or the call raised.
NombreDe(result, text) ==
    IF result = "response"
      THEN LET nombre_limpio == sub_ilegales(strip(text))
           IN  IF nombre_limpio # <<>> THEN nombre_limpio ELSE Desconocido
      ELSE Desconocido

\* What obtener_puntuacion returns once gemini_request_with_retry is back.
\* puntuacion_str and valor_numerico are bound through one-element sets, so
\* that each is computed once, as the assignments of the code are.
PuntuacionDe(result, text) ==
    IF result = "response"
      THEN CHOOSE devuelto \in
             {IF valor_numerico.ok /\ EnRango(valor_numerico) THEN puntuacion_str ELSE No :
                <<puntuacion_str, valor_numerico>> \in
                   {<<p, float(p)>> : p \in {replace(strip(text), ",", ".")}}} : TRUE
      ELSE No

\* obtener_puntuacion as a whole: "no" at once for an absent or empty
\* transcription, otherwise what the answer of the remote call gives.
ObtenerPuntuacion(transcripcion, result, text) ==
    IF transcripcion = NoneText \/ transcripcion = <<>>
      THEN No
      ELSE PuntuacionDe(result, text)

\* ---------------------------------------------------------------- the disk

\* os.rename / shutil.move of a file onto dst: dst then holds what src held,
\* whatever dst held before.
Mover(f, src, dst) ==
    [p \in (DOMAIN f \ {src}) \cup {dst} |-> IF p = dst THEN f[src] ELSE f[p]]

\* destination_dir / name
EnDir(d, p) == [p EXCEPT !.dir = d]

\* ---------------------------------------------------------------- procesar_un_video

Duraciones == {10, 40}
Min(a, b) == IF a < b THEN a ELSE b
Max(a, b) == IF a > b THEN a ELSE b

\* The number of attempts of the move into the error folder.
MaxMoveRetries == 3

\* The function returns (also after its `except Exception` has logged).
PvReturn(outcome) == [v EXCEPT !.outcome = outcome]

\* Slip: the file is opened outside the try block, so the failure leaves main's loop.
PvProbeFueraDelTry ==
    /\ pc = "pv_probe"
    /\ \/ /\ exists(v.ruta)
          /\ \E d \in Duraciones :
               /\ v' = [v EXCEPT !.duracion_video = d, !.pasos = @ \o <<"probe", "lead">>]
               /\ tc' = TcCall("inicio", 0, Min(20, d))
          /\ pc' = "tc_extraer"
          /\ m' = m
       \/ /\ v' = [PvReturn("probe_failed") EXCEPT !.pasos = Append(@, "probe")]
          /\ tc' = tc
          /\ m' = [m EXCEPT !.result = "raised"]
          /\ pc' = "main_finally"
    /\ UNCHANGED <<fs, dirs, w, ru, hist>>

\* VideoFileClip(ruta_video).duration, then the call of transcribir_clip for the
\* first 20 seconds; a file that cannot be opened raises.
PvProbe ==
    /\ pc = "pv_probe"
    /\ \/ /\ exists(v.ruta)
          /\ \E d \in Duraciones :
               /\ v' = [v EXCEPT !.duracion_video = d, !.pasos = @ \o <<"probe", "lead">>]
               /\ tc' = TcCall("inicio", 0, Min(20, d))
          /\ pc' = "tc_extraer"
       \/ /\ v' = [PvReturn("probe_failed") EXCEPT !.pasos = Append(@, "probe")]
          /\ tc' = tc
          /\ pc' = "pv_return"
    /\ UNCHANGED <<fs, dirs, m, w, ru, hist>>

\* Slip: the first text is not tested before it is sent on.
PvTrasInicioSinComprobar ==
    /\ pc = "tc_return"
    /\ tc.clip = "inicio"
    /\ v' = [v EXCEPT !.texto_inicio = tc.result, !.pasos = Append(@, "title")]
    /\ w' = WCall("obtener_nombre_pelicula")
    /\ pc' = "w_loop"
    /\ tc' = TcIdle
    /\ UNCHANGED <<fs, dirs, m, ru, hist>>

\* transcribir_clip is back with the first text: `if not texto_inicio: return`,
\* else obtener_nombre_pelicula sends its prompt.
PvTrasInicio ==
    /\ pc = "tc_return"
    /\ tc.clip = "inicio"
    /\ IF tc.result = NoneText \/ tc.result = <<>>
         THEN /\ v' = [PvReturn("sin_texto_inicio") EXCEPT !.texto_inicio = tc.result]
              /\ pc' = "pv_return"
              /\ w' = w
         ELSE /\ v' = [v EXCEPT !.texto_inicio = tc.result, !.pasos = Append(@, "title")]
              /\ w' = WCall("obtener_nombre_pelicula")
              /\ pc' = "w_loop"
    /\ tc' = TcIdle
    /\ UNCHANGED <<fs, dirs, m, ru, hist>>

\* Slip: only "nombre_desconocido" is tested, as the Whisper script does.
NombreInvalidoSoloDesconocido(nombre) ==
    nombre = NoneText \/ nombre = <<>> \/ nombre = Desconocido

\* `not nombre_pelicula or nombre_pelicula in [...]`
NombreInvalido(nombre) ==
    nombre = NoneText \/ nombre = <<>> \/ nombre \in {Desconocido, NoEncontrada}

\* obtener_nombre_pelicula returns; an invalid name goes to the error folder,
\* a valid one to transcribir_clip for the last 20 seconds.
PvTrasNombre ==
    /\ pc = "w_return"
    /\ w.caller = "obtener_nombre_pelicula"
    /\ LET nombre == NombreDe(w.result, w.text)
           fallo == IF w.result = "response" THEN None ELSE w.caller
       IN  IF NombreInvalido(nombre)
             THEN /\ v' = [v EXCEPT !.nombre_pelicula = nombre, !.fallo_remoto = fallo,
                                      !.pasos = Append(@, "error_route")]
                  /\ pc' = "pv_error_dir"
                  /\ tc' = tc
             ELSE /\ v' = [v EXCEPT !.nombre_pelicula = nombre, !.fallo_remoto = fallo,
                                      !.pasos = Append(@, "tail")]
                  /\ tc' = TcCall("final", Max(0, v.duracion_video - 20), v.duracion_video)
                  /\ pc' = "tc_extraer"
    /\ w' = WIdle
    /\ UNCHANGED <<fs, dirs, m, ru, hist>>

\* os.makedirs(error_dir, exist_ok=True); its failure reaches the outer except.
PvErrorDir ==
    /\ pc = "pv_error_dir"
    /\ \/ /\ dirs' = dirs \cup {"error"}
          /\ v' = [v EXCEPT !.attempt = 0]
          /\ pc' = "pv_error_move"
       \/ /\ dirs' = dirs
          /\ v' = PvReturn("exception")
          /\ pc' = "pv_return"
    /\ UNCHANGED <<fs, m, tc, w, ru, hist>>

\* Slip: `if attempt < max_retries`, so the last failure waits too.
PvErrorMoveEsperaSiempre ==
    /\ pc = "pv_error_move"
    /\ v.attempt < MaxMoveRetries
    /\ \/ /\ exists(v.ruta)
          /\ fs' = Mover(fs, v.ruta, EnDir("error", v.ruta))
          /\ v' = [PvReturn("routed") EXCEPT !.moves = @ + 1]
          /\ pc' = "pv_return"
       \/ /\ fs' = fs
          /\ v' = [v EXCEPT !.moves = @ + 1]
          /\ pc' = "pv_error_sleep"
    /\ UNCHANGED <<dirs, m, tc, w, ru, hist>>

\* One turn of `for attempt in range(max_retries)`: shutil.move into the error
\* folder; on failure either wait for the next turn or give up on the last one.
PvErrorMove ==
    /\ pc = "pv_error_move"
    /\ v.attempt < MaxMoveRetries
    /\ \/ /\ exists(v.ruta)
          /\ fs' = Mover(fs, v.ruta, EnDir("error", v.ruta))
          /\ v' = [PvReturn("routed") EXCEPT !.moves = @ + 1]
          /\ pc' = "pv_return"
       \/ /\ fs' = fs
          /\ IF v.attempt < MaxMoveRetries - 1
               THEN /\ v' = [v EXCEPT !.moves = @ + 1]
                    /\ pc' = "pv_error_sleep"
               ELSE /\ v' = [PvReturn("error_move_failed") EXCEPT !.moves = @ + 1]
                    /\ pc' = "pv_return"
    /\ UNCHANGED <<dirs, m, tc, w, ru, hist>>

\* time.sleep(2) between two attempts.
PvErrorSleep ==
    /\ pc = "pv_error_sleep"
    /\ v' = [v EXCEPT !.sleeps = @ + 1, !.attempt = @ + 1]
    /\ pc' = "pv_error_move"
    /\ UNCHANGED <<fs, dirs, m, tc, w, ru, hist>>

\* transcribir_clip is back with the last text: `if not texto_final: return`,
\* else obtener_puntuacion sends its prompt.
PvTrasFinal ==
    /\ pc = "tc_return"
    /\ tc.clip = "final"
    /\ IF tc.result = NoneText \/ tc.result = <<>>
         THEN /\ v' = [PvReturn("sin_texto_final") EXCEPT !.texto_final = tc.result]
              /\ pc' = "pv_return"
              /\ w' = w
         ELSE /\ v' = [v EXCEPT !.texto_final = tc.result, !.pasos = Append(@, "score")]
              /\ w' = WCall("obtener_puntuacion")
              /\ pc' = "w_loop"
    /\ tc' = TcIdle
    /\ UNCHANGED <<fs, dirs, m, ru, hist>>

\* Slip: the score goes into the name as it is.
NuevoNombreBaseConPunto(nombre_pelicula, puntuacion) ==
    nombre_pelicula \o <<"_puntos_">> \o puntuacion

\* nuevo_nombre_base = f"{nombre_pelicula}_puntos_{puntuacion.replace('.', '_')}"
NuevoNombreBase(nombre_pelicula, puntuacion) ==
    nombre_pelicula \o <<"_puntos_">> \o replace(puntuacion, ".", "_")

\* Slip: the composed name is used as it is, without obtener_ruta_unica.
PvTrasPuntuacionSinResolver ==
    /\ pc = "w_return"
    /\ w.caller = "obtener_puntuacion"
    /\ LET fallo == IF w.result = "response" THEN None ELSE w.caller
       IN  v' = [v EXCEPT !.puntuacion = PuntuacionDe(w.result, w.text),
                          !.fallo_remoto = fallo, !.pasos = Append(@, "rename")]
    /\ LET propuesta == with_stem(v.ruta, NuevoNombreBase(v.nombre_pelicula, v'.puntuacion))
       IN  ru' = [RuIdle EXCEPT !.propuesta = propuesta, !.estilo = "paren",
                                !.result = propuesta]
    /\ pc' = "ru_return"
    /\ w' = WIdle
    /\ UNCHANGED <<fs, dirs, m, tc, hist>>

\* obtener_puntuacion returns; the new name is composed and handed to
\* obtener_ruta_unica next to the video.
PvTrasPuntuacion ==
    /\ pc = "w_return"
    /\ w.caller = "obtener_puntuacion"
    /\ LET fallo == IF w.result = "response" THEN None ELSE w.caller
       IN  v' = [v EXCEPT !.puntuacion = PuntuacionDe(w.result, w.text),
                          !.fallo_remoto = fallo, !.pasos = Append(@, "rename")]
    /\ ru' = [RuIdle EXCEPT
                !.propuesta = with_stem(v.ruta, NuevoNombreBase(v.nombre_pelicula, v'.puntuacion)),
                !.estilo = "paren"]
    /\ pc' = "ru_entrada"
    /\ w' = WIdle
    /\ UNCHANGED <<fs, dirs, m, tc, hist>>

\* ruta_video.rename(nueva_ruta_video); its failure reaches the outer except.
PvRename ==
    /\ pc = "ru_return"
    /\ \/ /\ exists(v.ruta)
          /\ fs' = Mover(fs, v.ruta, ru.result)
          /\ v' = [v EXCEPT !.nueva_ruta = ru.result, !.pasos = Append(@, "relocate")]
          /\ pc' = "pv_move"
       \/ /\ fs' = fs
          /\ v' = PvReturn("exception")
          /\ pc' = "pv_return"
    /\ ru' = RuIdle
    /\ UNCHANGED <<dirs, m, tc, w, hist>>

\* Slip: no inner try around the move, and the outer handler re-raises, so
\* the failed move leaves main's loop.
PvMovePropagaElFallo ==
    /\ pc = "pv_move"
    /\ \/ /\ fs' = Mover(fs, v.nueva_ruta, EnDir("base", v.nueva_ruta))
          /\ hist' = [hist EXCEPT !.final = Append(@, [video |-> fs[v.nueva_ruta],
                                                       path |-> EnDir("base", v.nueva_ruta)])]
          /\ v' = PvReturn("relocated")
          /\ pc' = "pv_return"
          /\ m' = m
       \/ /\ fs' = fs
          /\ hist' = hist
          /\ v' = PvReturn("renamed_not_relocated")
          /\ pc' = "main_finally"
          /\ m' = [m EXCEPT !.result = "raised"]
    /\ UNCHANGED <<dirs, tc, w, ru>>

\* shutil.move(nueva_ruta_video, destination_dir / nueva_ruta_video.name);
\* its failure is logged by the inner except.
PvMove ==
    /\ pc = "pv_move"
    /\ \/ /\ fs' = Mover(fs, v.nueva_ruta, EnDir("base", v.nueva_ruta))
          /\ hist' = [hist EXCEPT !.final = Append(@, [video |-> fs[v.nueva_ruta],
                                                       path |-> EnDir("base", v.nueva_ruta)])]
          /\ v' = PvReturn("relocated")
       \/ /\ fs' = fs
          /\ hist' = hist
          /\ v' = PvReturn("renamed_not_relocated")
    /\ pc' = "pv_return"
    /\ UNCHANGED <<dirs, m, tc, w, ru>>

\* ---------------------------------------------------------------- main

RECURSIVE Ordenes(_)
\* The orders in which a glob may list a set of files.
Ordenes(S) ==
    IF S = {} THEN {<<>>}
    ELSE UNION {{<<x>> \o o : o \in Ordenes(S \ {x})} : x \in S}

Mp4 == <<".", "m", "p", "4">>
Mov == <<".", "m", "o", "v">>

\* upload_dir.glob("*.ext"): the files of that extension directly in upload.
Glob(ext) == {p \in DOMAIN fs : p.dir = "upload" /\ p.ext = ext}

\* The call procesar_un_video(ruta, ...).
PvCall(ruta) == [VIdle EXCEPT !.ruta = ruta]

\* main returns before its try block: VIDEO_PROCESSING_DIR is not set, or the
\* model cannot be initialised.
MainSinConfig ==
    /\ pc = "main_inicio"
    /\ m' = [m EXCEPT !.result = "returned"]
    /\ pc' = "main_fin"
    /\ UNCHANGED <<fs, dirs, v, tc, w, ru, hist>>

\* args.archivo is given: not a file, `return`; a file, the temp directory is
\* made next to it (makedirs may raise) and the video is processed.
MainArchivo ==
    /\ pc = "main_inicio"
    /\ \/ /\ m' = [m EXCEPT !.modo = "archivo", !.result = "returned"]
          /\ pc' = "main_finally"
          /\ UNCHANGED <<dirs, v, hist>>
       \/ \E ruta \in DOMAIN fs :
            /\ ruta.dir = "upload"
            /\ \/ /\ m' = [m EXCEPT !.modo = "archivo", !.temp_dir = "temp",
                                     !.created = TRUE]
                  /\ dirs' = dirs \cup {"temp"}
                  /\ v' = PvCall(ruta)
                  /\ hist' = [hist EXCEPT !.handed = Append(@, ruta)]
                  /\ pc' = "pv_probe"
               \/ /\ m' = [m EXCEPT !.modo = "archivo", !.temp_dir = "temp",
                                     !.result = "raised"]
                  /\ pc' = "main_finally"
                  /\ UNCHANGED <<dirs, v, hist>>
    /\ UNCHANGED <<fs, tc, w, ru>>

\* No argument: the upload directory is missing, `return`; else the temp
\* directory is made (makedirs may raise), the videos are listed, and either
\* there are none, `return`, or the first one is processed.
MainLote ==
    /\ pc = "main_inicio"
    /\ IF "upload" \notin dirs
         THEN /\ m' = [m EXCEPT !.modo = "lote", !.result = "returned"]
              /\ pc' = "main_finally"
              /\ UNCHANGED <<dirs, v, hist>>
         ELSE \/ /\ m' = [m EXCEPT !.modo = "lote", !.temp_dir = "temp",
                                    !.result = "raised"]
                 /\ pc' = "main_finally"
                 /\ UNCHANGED <<dirs, v, hist>>
              \/ /\ dirs' = dirs \cup {"temp"}
                 /\ \E a \in Ordenes(Glob(Mp4)), b \in Ordenes(Glob(Mov)) :
                      LET videos_a_procesar == a \o b
                          m1 == [m EXCEPT !.modo = "lote", !.temp_dir = "temp",
                                          !.created = TRUE,
                                          !.videos = videos_a_procesar]
                      IN  IF videos_a_procesar = <<>>
                            THEN /\ m' = [m1 EXCEPT !.result = "returned"]
                                 /\ pc' = "main_finally"
                                 /\ UNCHANGED <<v, hist>>
                            ELSE /\ m' = [m1 EXCEPT !.idx = 1]
                                 /\ v' = PvCall(videos_a_procesar[1])
                                 /\ hist' = [hist EXCEPT
                                               !.handed = Append(@, videos_a_procesar[1])]
                                 /\ pc' = "pv_probe"
    /\ UNCHANGED <<fs, tc, w, ru>>

\* procesar_un_video is back: the next video of the list, or the end of the try block.
MainSiguiente ==
    /\ pc = "pv_return"
    /\ IF m.modo = "lote" /\ m.idx < Len(m.videos)
         THEN /\ m' = [m EXCEPT !.idx = @ + 1]
              /\ v' = PvCall(m.videos[m.idx + 1])
              /\ hist' = [hist EXCEPT !.handed = Append(@, m.videos[m.idx + 1]),
                                      !.outcomes = Append(@, v.outcome)]
              /\ pc' = "pv_probe"
         ELSE /\ m' = [m EXCEPT !.result = "returned"]
              /\ pc' = "main_finally"
              /\ v' = VIdle
              /\ hist' = [hist EXCEPT !.outcomes = Append(@, v.outcome)]
    /\ UNCHANGED <<fs, dirs, tc, w, ru>>

\* Slip: the clean-up follows the loop instead of sitting in a finally block,
\* so the early `return` for an empty upload directory skips it.
MainFinallyTrasElBucle ==
    /\ pc = "main_finally"
    /\ IF m.temp_dir # None /\ m.temp_dir \in dirs /\ hist.handed # <<>>
         THEN \/ /\ dirs' = dirs \ {m.temp_dir}
                 /\ fs' = [p \in {q \in DOMAIN fs : q.dir # m.temp_dir} |-> fs[p]]
                 /\ m' = m
              \/ /\ m' = [m EXCEPT !.result = "raised", !.rmtree_failed = TRUE]
                 /\ UNCHANGED <<fs, dirs>>
         ELSE UNCHANGED <<fs, dirs, m>>
    /\ pc' = "main_fin"
    /\ UNCHANGED <<v, tc, w, ru, hist>>

\* `finally: if temp_dir and temp_dir.exists(): shutil.rmtree(temp_dir)`.
\* rmtree removes the directory and what it holds, or raises out of main.
MainFinally ==
    /\ pc = "main_finally"
    /\ IF m.temp_dir # None /\ m.temp_dir \in dirs
         THEN \/ /\ dirs' = dirs \ {m.temp_dir}
                 /\ fs' = [p \in {q \in DOMAIN fs : q.dir # m.temp_dir} |-> fs[p]]
                 /\ m' = m
              \/ /\ m' = [m EXCEPT !.result = "raised", !.rmtree_failed = TRUE]
                 /\ UNCHANGED <<fs, dirs>>
         ELSE UNCHANGED <<fs, dirs, m>>
    /\ pc' = "main_fin"
    /\ UNCHANGED <<v, tc, w, ru, hist>>

\* ---------------------------------------------------------------- the run

Video(name, ext) == Path("upload", <<name>>, ext)

\* The videos that may lie in the upload directory when the run starts.
VideosPosibles == {Video("a", Mp4), Video("b", Mp4), Video("c", Mov)}

\* Files that may lie in the destination root and in the error folder before the run.
ViejoBase == Path("base", <<"D", "_puntos_", "8">>, Mp4)
ViejoError == Path("error", <<"a">>, Mp4)

Contenido(p) == IF p.dir = "upload" THEN p.stem ELSE <<"viejo", p.dir>>

Init ==
    /\ pc = "main_inicio"
    /\ \E V \in SUBSET VideosPosibles, O \in SUBSET {ViejoBase, ViejoError} :
         /\ Cardinality(V) <= MaxVideos
         /\ fs = [p \in V \cup O |-> Contenido(p)]
         /\ \E D \in SUBSET {"upload"} :
              /\ V # {} => "upload" \in D
              /\ dirs = D \cup {p.dir : p \in O \cap {ViejoError}}
         /\ hist = [HistIdle EXCEPT !.previos = O]
    /\ m = MIdle
    /\ v = VIdle
    /\ tc = TcIdle
    /\ w = WIdle
    /\ ru = RuIdle

Next ==
    \/ MainSinConfig
    \/ MainArchivo
    \/ MainLote
    \/ MainSiguiente
    \/ MainFinally
    \/ PvProbe
    \/ PvTrasInicio
    \/ PvTrasNombre
    \/ PvErrorDir
    \/ PvErrorMove
    \/ PvErrorSleep
    \/ PvTrasFinal
    \/ PvTrasPuntuacion
    \/ PvRename
    \/ PvMove
    \/ TcExtraer
    \/ TcSubir
    \/ TcSondear
    \/ TcPedir
    \/ TcRespuesta
    \/ TcFinally
    \/ GeminiAttempt
    \/ GeminiSleep
    \/ GeminiExhausted
    \/ RutaUnicaEntrada
    \/ RutaUnicaBucle

Spec == Init /\ [][Next]_vars

\* A turn of the poll loop at which the asset is found out of PROCESSING.
TcDejaProcessing == TcSondear /\ tc'.state # "PROCESSING"

\* A batch run over a fresh root holding up to MaxVideosVivo videos.
InitVivo ==
    /\ pc = "main_inicio"
    /\ \E V \in SUBSET VideosPosibles :
         /\ Cardinality(V) <= MaxVideosVivo
         /\ fs = [p \in V |-> Contenido(p)]
    /\ dirs = {"upload"}
    /\ m = MIdle
    /\ v = VIdle
    /\ tc = TcIdle
    /\ w = WIdle
    /\ ru = RuIdle
    /\ hist = HistIdle

\* The run under its scheduling: the single thread always takes its next
\* step, and an asset being polled is at some turn no longer PROCESSING.
SpecVivo == InitVivo /\ [][Next]_vars /\ WF_vars(Next) /\ WF_vars(TcDejaProcessing)

\* ---------------------------------------------------------------- the resolver alone

Stems == {<<"D">>, <<"D", "(", "2", ")">>, <<"D", "_", "2">>}
Exts == {<<>>, <<".", "m", "p", "4">>}
Estilos == {"paren", "guion"}

\* The proposed path and the candidates the resolver can reach on a disk that
\* holds at most MaxColisiones of them.
Candidatas(p, estilo) ==
    {p} \cup {Candidata(p, estilo, c) : c \in 2 .. (MaxColisiones + 1)}

InitResolver ==
    /\ pc = "ru_entrada"
    /\ \E p \in {Path("upload", s, e) : s \in Stems, e \in Exts}, estilo \in Estilos :
         /\ ru = [RuIdle EXCEPT !.propuesta = p, !.estilo = estilo]
         /\ \E S \in SUBSET Candidatas(p, estilo) :
              /\ Cardinality(S) <= MaxColisiones
              /\ fs = [q \in S |-> "old"]
    /\ dirs = {}
    /\ m = MIdle
    /\ v = VIdle
    /\ tc = TcIdle
    /\ w = WIdle
    /\ hist = HistIdle

NextResolver == RutaUnicaEntrada \/ RutaUnicaBucle

SpecResolver == InitResolver /\ [][NextResolver]_vars

\* ---------------------------------------------------------------- the wrapper alone

Callers == {"transcribir_clip", "obtener_nombre_pelicula", "obtener_puntuacion"}

\* gemini_request_with_retry entered with any max_retries up to MaxRetriesArg.
InitRetry ==
    /\ pc = "w_loop"
    /\ \E c \in Callers, r \in 0 .. MaxRetriesArg :
         w = [WCall(c) EXCEPT !.max_retries = r]
    /\ fs = <<>>
    /\ dirs = {}
    /\ m = MIdle
    /\ v = VIdle
    /\ tc = TcIdle
    /\ ru = RuIdle
    /\ hist = HistIdle

NextRetry == GeminiAttempt \/ GeminiSleep \/ GeminiExhausted

SpecRetry == InitRetry /\ [][NextRetry]_vars

\* ---------------------------------------------------------------- obtener_puntuacion alone

Alfabeto == {"0", "1", "9", ".", ",", "-", "+", " ", "no"}
TextosRespuesta == UNION {[1 .. n -> Alfabeto] : n \in 0 .. MaxLenRespuesta}

\* obtener_puntuacion entered with any transcription; the remote call, when
\* it is made, ends in any of its three ways, with any answer text.
InitPuntuacion ==
    /\ pc = "op_entrada"
    /\ \E t \in Transcripciones \cup {NoneText} :
         /\ v = [VIdle EXCEPT !.texto_final = t]
         /\ IF t \in {<<>>, NoneText}
              THEN w = WIdle
              ELSE \E r \in {"response", "error", "exhausted"} :
                     \E x \in (IF r = "response" THEN TextosRespuesta ELSE {NoneText}) :
                       w = [WCall("obtener_puntuacion") EXCEPT !.result = r, !.text = x]
    /\ fs = <<>>
    /\ dirs = {}
    /\ m = MIdle
    /\ tc = TcIdle
    /\ ru = RuIdle
    /\ hist = HistIdle

OpReturn ==
    /\ pc = "op_entrada"
    /\ v' = [v EXCEPT !.puntuacion = ObtenerPuntuacion(v.texto_final, w.result, w.text)]
    /\ pc' = "op_return"
    /\ UNCHANGED <<fs, dirs, m, tc, w, ru, hist>>

NextPuntuacion == OpReturn

SpecPuntuacion == InitPuntuacion /\ [][NextPuntuacion]_vars

\* ================================================================ claims

\* The text after the stem is "(" n ")" or "_" n, n a decimal numeral >= 2
\* without leading zero.
EsNumeral(s) == s # <<>> /\ SonDigitos(s) /\ s[1] # "0"

EsDesambiguador(t) ==
    \/ /\ Len(t) >= 3
       /\ t[1] = "(" /\ t[Len(t)] = ")"
       /\ EsNumeral(SubSeq(t, 2, Len(t) - 1))
       /\ ValorDigitos(SubSeq(t, 2, Len(t) - 1)) >= 2
    \/ /\ Len(t) >= 2
       /\ t[1] = "_"
       /\ EsNumeral(Tail(t))
       /\ ValorDigitos(Tail(t)) >= 2

\* C1: obtener_ruta_unica returns the proposed path itself when it does not
\* exist; otherwise a path that does not exist, in the same directory, with
\* the same extension, whose stem is the proposed stem followed by a numeric
\* disambiguator of at least 2.
C1_RutaUnica ==
    pc = "ru_return" =>
        IF ~exists(ru.propuesta)
          THEN ru.result = ru.propuesta
          ELSE /\ ~exists(ru.result)
               /\ ru.result.dir = ru.propuesta.dir
               /\ ru.result.ext = ru.propuesta.ext
               /\ Len(ru.result.stem) > Len(ru.propuesta.stem)
               /\ SubSeq(ru.result.stem, 1, Len(ru.propuesta.stem)) = ru.propuesta.stem
               /\ EsDesambiguador(SubSeq(ru.result.stem, Len(ru.propuesta.stem) + 1,
                                         Len(ru.result.stem)))

\* The resolver is back after the proposed path and two candidates collided.
C1_Witness ==
    /\ pc = "ru_return"
    /\ exists(ru.propuesta)
    /\ ru.contador = 4
    /\ ru.result.stem = ru.propuesta.stem \o <<"(", "4", ")">>

\* C2: the paths at which the videos of one run were left in the destination
\* root are pairwise distinct.
C2_DestinosDistintos ==
    \A i, j \in 1 .. Len(hist.final) :
        i # j => hist.final[i].path # hist.final[j].path

\* C3: a call answered by the quota error k < max_retries times and then by a
\* response returns that response after k + 1 invocations and k sleeps.
C3_ExitoTrasCuota ==
    (pc = "w_return" /\ w.result = "response") =>
        /\ w.quota < w.max_retries
        /\ w.calls = w.quota + 1
        /\ w.sleeps = w.quota
        /\ w.text \in Respuestas(w.caller)

\* A response arrives after two quota errors.
C3_Witness == pc = "w_return" /\ w.result = "response" /\ w.quota = 2 /\ w.sleeps = 2

\* C4: a call answered by the quota error every time invokes the API exactly
\* max_retries times and then fails as exhausted; it returns no response and
\* invokes nothing further.
C4_Agotado ==
    /\ w.calls <= w.max_retries
    /\ w.result = "exhausted" => (w.calls = w.max_retries /\ w.quota = w.max_retries)
    /\ (w.caller # None /\ w.quota = w.max_retries) =>
           /\ w.calls = w.max_retries
           /\ w.result \in {None, "exhausted"}
           /\ pc \in {"w_sleep", "w_loop", "w_return"}
           /\ pc = "w_return" => w.result = "exhausted"

\* The wrapper fails as exhausted after its three default attempts.
C4_Witness ==
    /\ pc = "w_return"
    /\ w.result = "exhausted"
    /\ w.max_retries = 3
    /\ w.calls = 3

\* C5: any other failure is raised to the caller at once: the failing
\* invocation is the last one and no sleep follows it.
C5_OtroError ==
    w.result = "error" =>
        /\ pc = "w_return"
        /\ w.calls = w.quota + 1
        /\ w.sleeps = w.quota

\* Another failure on the first attempt is raised at once.
C5_Witness == pc = "w_return" /\ w.result = "error" /\ w.calls = 1 /\ w.sleeps = 0

\* C6: when transcribir_clip returns, the deletion of the remote asset has been
\* requested exactly once if the upload succeeded and not at all otherwise,
\* whichever way the call ended.
C6_BorradoRemoto ==
    /\ tc.deletes <= 1
    /\ tc.deletes = 1 => tc.state # None
    /\ pc = "tc_return" => tc.deletes = (IF tc.state # None THEN 1 ELSE 0)

\* transcribir_clip returns after get_file raised while polling.
C6_Witness ==
    /\ pc = "tc_return"
    /\ tc.exit = "sondear"
    /\ tc.deletes = 1
    /\ tc.result = NoneText

C8_LoteAislado ==
    m.modo = "lote" =>
        /\ hist.handed = SubSeq(m.videos, 1, m.idx)
        /\ pc \in {"main_finally", "main_fin"} =>
               (m.idx = Len(m.videos) /\ Len(hist.outcomes) = Len(m.videos))

\* The second video of a batch is handed over after the first one failed.
C8_Witness ==
    /\ m.modo = "lote"
    /\ pc = "pv_probe"
    /\ m.idx = 2
    /\ hist.outcomes = <<"exception">>

Sentinelas == {<<"pelicula_no_encontrada">>, <<"nombre_desconocido">>, <<>>}

\* C9: once title inference gave a sentinel or nothing, no tail transcription,
\* score inference or rename takes place, and when the move succeeds the video
\* is in the error folder under its own name and no longer where it was.
C9_NoReconocido ==
    v.nombre_pelicula \in Sentinelas =>
        /\ pc \in {"pv_error_dir", "pv_error_move", "pv_error_sleep", "pv_return"}
        /\ v.texto_final = NoneText
        /\ v.puntuacion = NoneText
        /\ v.nueva_ruta = NoneRuta
        /\ v.outcome \in {None, "routed", "error_move_failed", "exception"}
        /\ v.outcome = "routed" =>
               LET destino == [dir |-> "error", stem |-> v.ruta.stem, ext |-> v.ruta.ext]
               IN  /\ destino \in DOMAIN fs
                   /\ fs[destino] = v.ruta.stem
                   /\ v.ruta \notin DOMAIN fs

\* A video whose title came back as "pelicula_no_encontrada" has been moved.
C9_Witness ==
    /\ pc = "pv_return"
    /\ v.outcome = "routed"
    /\ v.nombre_pelicula = <<"pelicula_no_encontrada">>

\* C10: the move into the error folder is tried at most 3 times, not again
\* after a success, with a wait between two tries and none after the last;
\* after 3 failures the video is where it was and the function returns.
C10_ReintentoMover ==
    /\ v.moves <= 3
    /\ v.sleeps <= 2
    /\ pc = "pv_error_move" => v.sleeps = v.moves
    /\ pc = "pv_error_sleep" => v.sleeps = v.moves - 1
    /\ v.outcome = "routed" => (pc = "pv_return" /\ v.sleeps = v.moves - 1)
    /\ v.outcome = "error_move_failed" =>
           /\ pc = "pv_return"
           /\ v.moves = 3
           /\ v.sleeps = 2
           /\ v.ruta \in DOMAIN fs
           /\ fs[v.ruta] = v.ruta.stem

\* All three tries failed.
C10_Witness == pc = "pv_return" /\ v.outcome = "error_move_failed" /\ v.moves = 3

\* The score as it must appear in a file name: "_" where it has ".".
SinPunto(s, t) ==
    /\ Len(t) = Len(s)
    /\ \A i \in 1 .. Len(s) : t[i] = (IF s[i] = "." THEN "_" ELSE s[i])

\* C11: a video with a valid title T and a score S, every step succeeding,
\* is left in the destination root as <T>_puntos_<S with "_" for "."><its
\* extension>, possibly with the resolver's disambiguator, is gone from its
\* original path, and the part of the name after "_puntos_" holds no ".".
C11_ExitoCompleto ==
    (pc = "pv_return" /\ v.outcome = "relocated") =>
        LET destino == hist.final[Len(hist.final)].path
            T == v.nombre_pelicula
            S == v.puntuacion
            resto == SubSeq(destino.stem, Len(T) + 2, Len(destino.stem))
        IN  /\ T \notin {<<"pelicula_no_encontrada">>, <<"nombre_desconocido">>, <<>>, NoneText}
            /\ S # NoneText
            /\ destino.dir = "base"
            /\ destino.ext = v.ruta.ext
            /\ Len(destino.stem) >= Len(T) + 1 + Len(S)
            /\ SubSeq(destino.stem, 1, Len(T) + 1) = T \o <<"_puntos_">>
            /\ SinPunto(S, SubSeq(resto, 1, Len(S)))
            /\ Len(resto) > Len(S) => EsDesambiguador(SubSeq(resto, Len(S) + 1, Len(resto)))
            /\ \A i \in 1 .. Len(resto) : resto[i] # "."
            /\ destino \in DOMAIN fs
            /\ fs[destino] = v.ruta.stem
            /\ v.ruta \notin DOMAIN fs

\* A video scored "9,5" has been relocated.
C11_Witness ==
    /\ pc = "pv_return"
    /\ v.outcome = "relocated"
    /\ v.nombre_pelicula = <<"D">>
    /\ v.puntuacion = <<"9", ".", "5">>

\* The number written by a string of digits, from its first digit on.
RECURSIVE ValorCifras(_)
ValorCifras(s) ==
    IF s = <<>> THEN 0
    ELSE DigitValue(Head(s)) * 10 ^ (Len(s) - 1) + ValorCifras(Tail(s))

NoEsPunto(c) == c # "."

\* s is a decimal numeral with "." as its only separator whose value lies in
\* [0, 10]: its digits read as one integer are at most 10 times the power of
\* ten of its decimal places, and are all zero under a minus sign.
NumeroDeCeroADiez(s) ==
    LET cuerpo == IF s # <<>> /\ s[1] \in {"+", "-"} THEN Tail(s) ELSE s
        puntos == {i \in 1 .. Len(cuerpo) : cuerpo[i] = "."}
        cifras == SelectSeq(cuerpo, NoEsPunto)
        decimales == IF puntos = {} THEN 0
                     ELSE Len(cuerpo) - (CHOOSE i \in puntos : TRUE)
    IN  /\ Cardinality(puntos) <= 1
        /\ cifras # <<>>
        /\ \A i \in 1 .. Len(cifras) : cifras[i] \in DigitChars
        /\ ValorCifras(cifras) <= 10 * 10 ^ decimales
        /\ (s[1] = "-") => ValorCifras(cifras) = 0

\* The answer with its surrounding blanks dropped and "," read as ".".
Leida(text) ==
    LET blancos == {i \in 1 .. Len(text) : text[i] \in Whitespace}
        negros == (1 .. Len(text)) \ blancos
    IN  IF negros = {} THEN <<>>
        ELSE LET a == CHOOSE i \in negros : \A j \in negros : i <= j
                 b == CHOOSE i \in negros : \A j \in negros : j <= i
             IN  [i \in 1 .. (b - a + 1) |->
                    IF text[a + i - 1] = "," THEN "." ELSE text[a + i - 1]]

\* C12: obtener_puntuacion returns "no" or a numeral in [0, 10] written with
\* a period; an answer that is no number or lies outside [0, 10], an empty
\* transcription and a failed remote call all give "no".
C12_PuntuacionNormalizada ==
    (pc = "op_return") =>
        /\ v.puntuacion = No \/ NumeroDeCeroADiez(v.puntuacion)
        /\ v.texto_final \in {<<>>, NoneText} => v.puntuacion = No
        /\ w.result # "response" => v.puntuacion = No
        /\ (w.result = "response" /\ ~NumeroDeCeroADiez(Leida(w.text))) => v.puntuacion = No

\* The answer " 9,1" has been turned into the score "9.1".
C12_Witness ==
    /\ pc = "op_return"
    /\ w.text = <<" ", "9", ",", "1">>
    /\ v.puntuacion = <<"9", ".", "1">>

\* C13: when the move of the renamed video into the destination root fails,
\* procesar_un_video returns normally, the video is at its renamed path next
\* to where it was, its old path stays free, it is not in the root, and main
\* goes on to the next video or to its normal end.
C13_RenombradoSinReubicar ==
    /\ (v.outcome = "renamed_not_relocated") =>
          /\ pc = "pv_return"
          /\ m.result = None
          /\ v.nueva_ruta \in DOMAIN fs
          /\ fs[v.nueva_ruta] = v.ruta.stem
          /\ v.nueva_ruta.dir = v.ruta.dir
          /\ v.nueva_ruta # v.ruta
          /\ v.ruta \notin DOMAIN fs
          /\ EnDir("base", v.nueva_ruta) \in DOMAIN fs =>
                 fs[EnDir("base", v.nueva_ruta)] # v.ruta.stem
    /\ \A i \in 1 .. Len(hist.outcomes) :
          (hist.outcomes[i] = "renamed_not_relocated" /\ i < Len(m.videos)) =>
              Len(hist.handed) > i

\* The first video of a batch stayed renamed in the upload directory and the
\* second one has been taken up.
C13_Witness ==
    /\ pc = "pv_probe"
    /\ hist.outcomes = <<"renamed_not_relocated">>
    /\ Len(hist.handed) = 2
    /\ \E p \in DOMAIN fs :
          /\ p.dir = "upload"
          /\ fs[p] = hist.handed[1].stem
          /\ p.stem # hist.handed[1].stem

\* C14: a failed clean-up is not escalated: when genai.delete_file failed,
\* transcribir_clip still returns what it was about to return, and when
\* shutil.rmtree failed at the end of main, main still returns normally.
C14_LimpiezaNoEscala ==
    /\ (pc = "tc_return" /\ tc.delete_failed) =>
          IF tc.exit = "return" THEN tc.result \in Transcripciones
                                ELSE tc.result = NoneText
    /\ (pc = "main_fin" /\ m.rmtree_failed) => m.result = "returned"

\* C15: once the remote call for the title or for the score has failed for
\* good, the video is skipped: it stays where it was under its own name; and
\* a call whose quota failures stopped within the retry budget has not failed.
C15_FalloRemotoFatal ==
    /\ (v.fallo_remoto # None) =>
          /\ v.ruta \in DOMAIN fs
          /\ fs[v.ruta] = v.ruta.stem
          /\ pc \notin {"tc_extraer", "ru_entrada", "ru_bucle", "ru_return", "pv_move"}
    /\ (pc = "w_return" /\ w.result = "response") => w.attempt < w.max_retries

\* The k-th path the resolver is to try: the proposed one, then counters 2, 3, ...
Intento(k) == IF k = 1 THEN ru.propuesta ELSE Candidata(ru.propuesta, ru.estilo, k)

\* The number of collisions in sequence: the first N paths to try exist and
\* the next one does not.
ColisionesSeguidas ==
    CHOOSE n \in 0 .. (MaxColisiones + 1) :
        /\ \A k \in 1 .. n : exists(Intento(k))
        /\ ~exists(Intento(n + 1))

\* C16: with N collisions in sequence obtener_ruta_unica returns the
\* (N+1)-th path to try after exactly N+1 existence probes; inside its loop
\* the counter is one more than the probes made, and every path before it
\* was found to exist.
C16_SondeosDelResolver ==
    /\ pc = "ru_return" =>
          /\ ru.probes = ColisionesSeguidas + 1
          /\ ru.result = Intento(ColisionesSeguidas + 1)
    /\ pc = "ru_bucle" =>
          /\ ru.contador >= 2
          /\ ru.probes = ru.contador - 1
          /\ \A k \in 1 .. (ru.contador - 1) : exists(Intento(k))

\* The resolver is back after three collisions in sequence.
C16_Witness ==
    /\ pc = "ru_return"
    /\ ColisionesSeguidas = 3
    /\ ru.probes = 4
    /\ ru.estilo = "guion"

\* C17: the rename of a video goes to the path obtener_ruta_unica gave for the
\* video's own directory: every other file stays where it is with what it
\* held, and when the composed name is already taken there the video gets
\* that name followed by a disambiguator.
C17_RenombrarNoSobrescribe ==
    [][(pc = "ru_return" /\ pc' = "pv_move") =>
          /\ \A p \in DOMAIN fs \ {v.ruta} : p \in DOMAIN fs' /\ fs'[p] = fs[p]
          /\ v'.nueva_ruta \in DOMAIN fs'
          /\ v'.nueva_ruta \notin DOMAIN fs
          /\ fs'[v'.nueva_ruta] = fs[v.ruta]
          /\ v'.nueva_ruta.dir = v.ruta.dir
          /\ exists(ru.propuesta) =>
                /\ Len(v'.nueva_ruta.stem) > Len(ru.propuesta.stem)
                /\ SubSeq(v'.nueva_ruta.stem, 1, Len(ru.propuesta.stem)) = ru.propuesta.stem
                /\ EsDesambiguador(SubSeq(v'.nueva_ruta.stem, Len(ru.propuesta.stem) + 1,
                                          Len(v'.nueva_ruta.stem)))]_vars

\* A video has been renamed to "...(2)" because the composed name is held by
\* another video left in the same directory.
C17_Witness ==
    /\ pc = "pv_move"
    /\ LET propuesta == with_stem(v.ruta, NuevoNombreBase(v.nombre_pelicula, v.puntuacion))
       IN  /\ propuesta \in DOMAIN fs
           /\ fs[propuesta] # v.ruta.stem
           /\ v.nueva_ruta = with_stem(propuesta, propuesta.stem \o <<"(", "2", ")">>)
           /\ fs[v.nueva_ruta] = v.ruta.stem

OrdenDePasos == <<"probe", "lead", "title", "tail", "score", "rename", "relocate">>
RutaAlError == <<"probe", "lead", "title", "error_route">>

EsPrefijo(s, t) == Len(s) <= Len(t) /\ s = SubSeq(t, 1, Len(s))

Comenzado(paso) == \E i \in 1 .. Len(v.pasos) : v.pasos[i] = paso

\* The step to which the control point belongs, None outside procesar_un_video.
PasoEnCurso ==
    IF pc \in {"tc_extraer", "tc_subir", "tc_esperar", "tc_finally", "tc_return"}
         \/ (pc \in {"w_loop", "w_sleep", "w_return"} /\ w.caller = "transcribir_clip")
      THEN (IF tc.clip = "inicio" THEN "lead" ELSE "tail")
    ELSE IF pc \in {"w_loop", "w_sleep", "w_return"}
      THEN (IF w.caller = "obtener_nombre_pelicula" THEN "title" ELSE "score")
    ELSE IF pc \in {"pv_error_dir", "pv_error_move", "pv_error_sleep"} THEN "error_route"
    ELSE IF pc \in {"ru_entrada", "ru_bucle", "ru_return"} THEN "rename"
    ELSE IF pc = "pv_move" THEN "relocate"
    ELSE None

C19_Estados ==
    /\ tc.requests <= 1
    /\ tc.requests = 1 => tc.state = "ACTIVE"
    /\ pc \in {"w_loop", "w_sleep", "w_return"} /\ w.caller = "transcribir_clip" =>
          tc.requests = 1
    /\ tc.exit = "estado" => tc.state = "FAILED"
    /\ (pc = "tc_return" /\ tc.state \in {"FAILED", "PROCESSING"}) =>
          /\ tc.requests = 0
          /\ tc.result = NoneText
          /\ tc.exit = (IF tc.state = "FAILED" THEN "estado" ELSE "sondear")

\* What holds of every step for C19: while the state seen is PROCESSING the
\* next step fetches it again (or get_file raises); a state once seen other
\* than PROCESSING is not fetched again.
C19_Pasos ==
    /\ (pc = "tc_esperar" /\ tc.state = "PROCESSING") =>
          (tc'.polled /\ pc' \in {"tc_esperar", "tc_finally"} /\ tc'.requests = 0)
    /\ (pc = "tc_esperar" /\ tc.state # "PROCESSING") =>
          (pc' # "tc_esperar" /\ tc'.state = tc.state /\ tc'.polled = tc.polled)
    /\ (tc.uploaded /\ tc'.uploaded /\ tc'.state # tc.state) => tc.state = "PROCESSING"

\* C19: transcribir_clip fetches the state of the uploaded asset again for as
\* long as it is PROCESSING and stops at the first other state; it sends the
\* transcription request only after seeing ACTIVE, and after any other state
\* it returns None without a request.
C19_PuertaDeSondeo == [](C19_Estados) /\ [][C19_Pasos]_vars

\* A call whose asset was first PROCESSING and then ACTIVE has returned a text.
C19_Witness ==
    /\ pc = "tc_return"
    /\ tc.polled
    /\ tc.state = "ACTIVE"
    /\ tc.requests = 1
    /\ tc.exit = "return"

\* The poll loop can take one more turn that finds the asset still PROCESSING.
OtraVuelta == TcSondear /\ pc' = "tc_esperar" /\ tc'.state = "PROCESSING"

\* C20: with an asset being polled leaving PROCESSING at some turn, every
\* video taken up reaches the return of procesar_un_video with an outcome and
\* the run reaches the end of main; the poll loop itself sets no limit: as
\* long as the state seen is PROCESSING another turn can follow.
C20_Terminacion ==
    /\ (pc = "pv_probe") ~> (pc = "pv_return" /\ v.outcome # None)
    /\ <>(pc = "main_fin")
    /\ []((pc = "tc_esperar" /\ tc.state = "PROCESSING") => ENABLED OtraVuelta)

\* A batch of two videos has ended after an asset was polled.
C20_Witness ==
    /\ pc = "tc_return"
    /\ tc.polled
    /\ tc.tick
    /\ tc.clip = "final"
    /\ hist.outcomes = <<"relocated">>

\* The videos given to the run: those listed and those handed over.
VideosDeEntrada ==
    {m.videos[i] : i \in 1 .. Len(m.videos)} \cup {hist.handed[i] : i \in 1 .. Len(hist.handed)}

\* C21: every video given to the run is at exactly one place, in its own
\* directory, in the destination root or in the error folder, and every file
\* that lay in the root or in the error folder before the run is still there
\* with what it held.
C21_Conservacion ==
    /\ \A video \in VideosDeEntrada :
          /\ Cardinality({p \in DOMAIN fs : fs[p] = Contenido(video)}) = 1
          /\ \A p \in DOMAIN fs :
                fs[p] = Contenido(video) => p.dir \in {video.dir, "base", "error"}
    /\ \A p \in hist.previos : p \in DOMAIN fs /\ fs[p] = Contenido(p)

====
